---- MODULE Spec2Model ----
(***************************************************************************)
(* Model of spat/preprocessing/align_transcripts.py: the Timestamp value   *)
(* type (construction, ordering, + and -) and generate_annotations, the    *)
(* windowed alignment of dice rolls with transcript captions.              *)
(*                                                                         *)
(* Spec          runs generate_annotations on bounded well-formed inputs.  *)
(* SpecTimestamp constructs a Timestamp and applies + and - to it.         *)
(***************************************************************************)
EXTENDS Integers, Sequences, FiniteSets, TLC

VARIABLES
    \* ---- generate_annotations -------------------------------------------
    transcript,           \* List[Caption], argument
    dice_rolls,           \* List[DiceRoll], argument
    window,               \* int, argument
    transcript_iterator,  \* iter(transcript): 1-based index of the item next() returns
    dice_roll,            \* position of the outer for loop in dice_rolls (0: not started)
    window_beginning,
    window_middle,
    window_end,
    pre_roll_captions,    \* list of captions, kept as positions in transcript
    post_roll_captions,
    pc,                   \* "for_dice_roll", "for_caption", "yield", "done", "raised", "idle"
    annotations,          \* the dicts yielded so far, in order
    yielded,              \* per yielded dict: the pre/post caption lists it was built from
    examined,             \* number of captions next(transcript_iterator) has returned
    \* ---- Timestamp arithmetic -------------------------------------------
    t_args,               \* <<hour, minute, second>> handed to Timestamp(...)
    t_rhs,                \* right operand of + and -
    t_first,              \* the Timestamp first constructed
    t_self,               \* current value: a Timestamp, or the error raised
    t_ops,                \* operators applied so far, in order
    t_exact               \* exact linearized seconds of the expression evaluated

align_vars == <<transcript, dice_rolls, window, transcript_iterator, dice_roll,
                window_beginning, window_middle, window_end, pre_roll_captions,
                post_roll_captions, pc, annotations, yielded, examined>>
ts_vars == <<t_args, t_rhs, t_first, t_self, t_ops, t_exact>>
vars == <<transcript, dice_rolls, window, transcript_iterator, dice_roll,
          window_beginning, window_middle, window_end, pre_roll_captions,
          post_roll_captions, pc, annotations, yielded, examined,
          t_args, t_rhs, t_first, t_self, t_ops, t_exact>>

(***************************************************************************)
(* Bounds of the model.                                                    *)
(***************************************************************************)
MaxCaptions == 3     \* captions in a transcript
MaxRolls == 2        \* dice rolls
MaxTime == 2         \* caption and roll times lie 0..MaxTime seconds after a base
MaxWindow == 1       \* window argument, seconds
MaxHour == 1         \* hour of a Timestamp operand
MaxInt == 61         \* magnitude of an integer operand of + and -
MaxOps == 2          \* operators applied in a row

(***************************************************************************)
(* Timestamp                                                               *)
(***************************************************************************)
AssertionError == [raised |-> "AssertionError"]
TypeError == [raised |-> "TypeError"]
Unbound == [raised |-> "unbound"]

IsTimestamp(t) == DOMAIN t = {"hour", "minute", "second"}

\* faulty variant: the assertion on hour is missing
Timestamp_no_hour_assert(hour, minute, second) ==
    IF 0 <= second /\ second < 60 /\ 0 <= minute /\ minute < 60
    THEN [hour |-> hour, minute |-> minute, second |-> second]
    ELSE AssertionError

\* Timestamp.__init__: the three asserts, then the fields
Timestamp(hour, minute, second) ==
    IF /\ 0 <= second /\ second < 60
       /\ 0 <= minute /\ minute < 60
       /\ 0 <= hour
    THEN [hour |-> hour, minute |-> minute, second |-> second]
    ELSE AssertionError

__int__(self) == self.second + 60 * self.minute + 3600 * self.hour

__eq__(self, rhs) ==
    (self.hour = rhs.hour) /\ (self.minute = rhs.minute) /\ (self.second = rhs.second)

__lt__(self, rhs) == __int__(self) < __int__(rhs)

__le__(self, rhs) == __int__(self) <= __int__(rhs)

__gt__(self, rhs) == __lt__(rhs, self)

__ge__(self, rhs) == __le__(rhs, self)

\* operands: isinstance(rhs, int), isinstance(rhs, Timestamp), anything else
IntOperand(k) == [kind |-> "int", int |-> k]
TimestampOperand(t) == [kind |-> "Timestamp", ts |-> t]
StrOperand == [kind |-> "str"]

__add__(self, rhs) ==
    IF rhs.kind = "int" THEN
        LET second0 == self.second + rhs.int
            remainder0 == second0 \div 60
            second == second0 % 60
            minute0 == self.minute + remainder0
            remainder == minute0 \div 60
            minute == minute0 % 60
            hour == self.hour + remainder
        IN  Timestamp(hour, minute, second)
    ELSE IF rhs.kind = "Timestamp" THEN
        LET second0 == self.second + rhs.ts.second
            remainder0 == second0 \div 60
            second == second0 % 60
            minute0 == self.minute + rhs.ts.minute + remainder0
            remainder == minute0 \div 60
            minute == minute0 % 60
            hour == self.hour + rhs.ts.hour + remainder
        IN  Timestamp(hour, minute, second)
    ELSE TypeError

\* faulty variant: the borrow from the seconds is not carried into the minutes
sub_no_borrow(self, rhs) ==
    IF rhs.kind = "int" THEN
        LET second0 == self.second - rhs.int
            second == second0 % 60
            minute0 == self.minute
            remainder == minute0 \div 60
            minute == minute0 % 60
            hour == self.hour + remainder
        IN  Timestamp(hour, minute, second)
    ELSE IF rhs.kind = "Timestamp" THEN
        LET second0 == self.second - rhs.ts.second
            second == second0 % 60
            minute0 == self.minute - rhs.ts.minute
            remainder == minute0 \div 60
            minute == minute0 % 60
            hour == self.hour - rhs.ts.hour + remainder
        IN  Timestamp(hour, minute, second)
    ELSE TypeError

__sub__(self, rhs) ==
    IF rhs.kind = "int" THEN
        LET second0 == self.second - rhs.int
            remainder0 == second0 \div 60
            second == second0 % 60
            minute0 == self.minute + remainder0
            remainder == minute0 \div 60
            minute == minute0 % 60
            hour == self.hour + remainder
        IN  Timestamp(hour, minute, second)
    ELSE IF rhs.kind = "Timestamp" THEN
        LET second0 == self.second - rhs.ts.second
            remainder0 == second0 \div 60
            second == second0 % 60
            minute0 == self.minute - rhs.ts.minute + remainder0
            remainder == minute0 \div 60
            minute == minute0 % 60
            hour == self.hour - rhs.ts.hour + remainder
        IN  Timestamp(hour, minute, second)
    ELSE TypeError

(***************************************************************************)
(* Inputs of generate_annotations                                          *)
(***************************************************************************)
\* Timestamp.from_string applied to the HH:MM:SS text of x seconds
Clock(x) == Timestamp(x \div 3600, (x \div 60) % 60, x % 60)

\* Times are offsets from 00:00:00 or from 00:59:58; from the latter, adding
\* the window carries into the minute and the hour.
Bases == {0, 3598}

\* Caption texts, pairwise different so that order and repetition show.
Alphabet == <<"A", "B", "C", "D", "E", "F">>

\* DiceRoll metadata as read_dice_rolls builds it (Nat20, Nat1, a number),
\* pairwise different so that the order of the annotations shows.
RollKinds ==
    << [roll_type |-> "Attack", value |-> 20, critical |-> TRUE],
       [roll_type |-> "Save", value |-> 1, critical |-> TRUE],
       [roll_type |-> "Skill", value |-> 15, critical |-> FALSE],
       [roll_type |-> "Damage", value |-> 7, critical |-> FALSE] >>

NonDecreasing(n) ==
    { s \in [1..n -> 0..MaxTime] : \A i \in 1..n : \A j \in i..n : s[i] <= s[j] }

Caption(index, start, end, text) ==
    [index |-> index, start |-> start, end |-> end, text |-> text]

DiceRoll(timestamp, roll_type, value, critical) ==
    [timestamp |-> timestamp, roll_type |-> roll_type, value |-> value,
     critical |-> critical]

\* a caption ends in the second it starts in, or in the next one
Durations == {0, 1}

\* transcripts ascending by start
Transcripts(base) ==
    UNION { { [i \in 1..n |-> Caption(i, Clock(base + se[1][i]),
                                      Clock(base + se[1][i] + se[2][i]), Alphabet[i])] :
                 se \in NonDecreasing(n) \X [1..n -> Durations] } :
            n \in 0..MaxCaptions }

\* dice rolls ascending by timestamp
DiceRolls(base) ==
    UNION { { [i \in 1..m |-> DiceRoll(Clock(base + ts[i]), RollKinds[i].roll_type,
                                       RollKinds[i].value, RollKinds[i].critical)] :
                 ts \in NonDecreasing(m) } : m \in 0..MaxRolls }

TimestampIdle ==
    /\ t_args = <<0, 0, 0>>
    /\ t_rhs = StrOperand
    /\ t_first = Unbound
    /\ t_self = Unbound
    /\ t_ops = <<>>
    /\ t_exact = 0

\* generate_annotations called: iter(transcript) taken, nothing yielded yet
Init ==
    /\ \E base \in Bases :
          /\ transcript \in Transcripts(base)
          /\ dice_rolls \in DiceRolls(base)
    /\ window \in 0..MaxWindow
    /\ transcript_iterator = 1
    /\ dice_roll = 0
    /\ window_beginning = Unbound
    /\ window_middle = Unbound
    /\ window_end = Unbound
    /\ pre_roll_captions = <<>>
    /\ post_roll_captions = <<>>
    /\ pc = "for_dice_roll"
    /\ annotations = <<>>
    /\ yielded = <<>>
    /\ examined = 0
    /\ TimestampIdle

(***************************************************************************)
(* generate_annotations                                                    *)
(***************************************************************************)
RECURSIVE join(_, _)
\* str.join
join(sep, list) ==
    IF list = <<>> THEN ""
    ELSE IF Len(list) = 1 THEN list[1]
    ELSE list[1] \o sep \o join(sep, Tail(list))

TextsOf(captions) == [i \in 1..Len(captions) |-> transcript[captions[i]].text]

\* The outer for loop takes the next roll and computes its window from it;
\* it: the caption iterator the inner loop goes on with, pre and post: the
\* lists the inner loop starts from.
StartRoll(it, pre, post) ==
    /\ pc = "for_dice_roll"
    /\ dice_roll < Len(dice_rolls)
    /\ dice_roll' = dice_roll + 1
    /\ transcript_iterator' = it
    /\ LET roll == dice_rolls[dice_roll + 1]
           beginning == __sub__(roll.timestamp, IntOperand(window))
       IN  IF IsTimestamp(beginning)
           THEN /\ window_beginning' = beginning
                /\ window_middle' = roll.timestamp
                /\ window_end' = __add__(roll.timestamp, IntOperand(window))
                /\ pre_roll_captions' = pre
                /\ post_roll_captions' = post
                /\ pc' = "for_caption"
           ELSE /\ pc' = "raised"
                /\ UNCHANGED <<window_beginning, window_middle, window_end,
                               pre_roll_captions, post_roll_captions>>
    /\ UNCHANGED <<transcript, dice_rolls, window, annotations, yielded, examined>>
    /\ UNCHANGED ts_vars

\* faulty variant: the caption iterator is taken anew for every roll
NextRoll_new_iterator == StartRoll(1, <<>>, <<>>)

\* faulty variant: the caption lists are not emptied for the new roll
NextRoll_lists_kept == StartRoll(transcript_iterator, pre_roll_captions, post_roll_captions)

NextRoll == StartRoll(transcript_iterator, <<>>, <<>>)

\* the caption next(transcript_iterator) returns
HasNext == transcript_iterator <= Len(transcript)
caption == transcript[transcript_iterator]

\* faulty variant: the end of the caption is compared, not its start
BelowWindow_by_end(c) == __lt__(c.end, window_beginning)

BelowWindow(c) == __lt__(c.start, window_beginning)

AboveWindow(c) == __gt__(c.start, window_end)

\* faulty variant: a caption ending at the roll's second counts as before the roll
BeforeRoll_le(c) == __le__(c.end, window_middle)

BeforeRoll(c) == __lt__(c.end, window_middle)

\* next() has handed out the caption: the iterator is past it in every branch
Fetch ==
    /\ pc = "for_caption"
    /\ HasNext
    /\ transcript_iterator' = transcript_iterator + 1
    /\ examined' = examined + 1
    /\ UNCHANGED <<transcript, dice_rolls, window, dice_roll, window_beginning,
                   window_middle, window_end, annotations, yielded>>
    /\ UNCHANGED ts_vars

\* continue
Discard ==
    /\ Fetch
    /\ BelowWindow(caption)
    /\ UNCHANGED <<pre_roll_captions, post_roll_captions, pc>>

\* break
Break ==
    /\ Fetch
    /\ ~BelowWindow(caption)
    /\ AboveWindow(caption)
    /\ pc' = "yield"
    /\ UNCHANGED <<pre_roll_captions, post_roll_captions>>

AppendPre ==
    /\ Fetch
    /\ ~BelowWindow(caption)
    /\ ~AboveWindow(caption)
    /\ BeforeRoll(caption)
    /\ pre_roll_captions' = Append(pre_roll_captions, transcript_iterator)
    /\ UNCHANGED <<post_roll_captions, pc>>

AppendPost ==
    /\ Fetch
    /\ ~BelowWindow(caption)
    /\ ~AboveWindow(caption)
    /\ ~BeforeRoll(caption)
    /\ post_roll_captions' = Append(post_roll_captions, transcript_iterator)
    /\ UNCHANGED <<pre_roll_captions, pc>>

\* next() raises StopIteration: the inner for loop ends
Exhausted ==
    /\ pc = "for_caption"
    /\ ~HasNext
    /\ pc' = "yield"
    /\ UNCHANGED <<transcript, dice_rolls, window, transcript_iterator, dice_roll,
                   window_beginning, window_middle, window_end, pre_roll_captions,
                   post_roll_captions, annotations, yielded, examined>>
    /\ UNCHANGED ts_vars

Yield ==
    /\ pc = "yield"
    /\ annotations' = Append(annotations,
          [context |-> join(" ", TextsOf(pre_roll_captions)),
           consequence |-> join(" ", TextsOf(post_roll_captions)),
           roll_type |-> dice_rolls[dice_roll].roll_type,
           value |-> dice_rolls[dice_roll].value,
           critical |-> dice_rolls[dice_roll].critical])
    /\ yielded' = Append(yielded,
          [pre |-> pre_roll_captions, post |-> post_roll_captions])
    /\ pc' = "for_dice_roll"
    /\ UNCHANGED <<transcript, dice_rolls, window, transcript_iterator, dice_roll,
                   window_beginning, window_middle, window_end, pre_roll_captions,
                   post_roll_captions, examined>>
    /\ UNCHANGED ts_vars

\* the outer for loop is over: the generator returns
Return ==
    /\ pc = "for_dice_roll"
    /\ dice_roll = Len(dice_rolls)
    /\ pc' = "done"
    /\ UNCHANGED <<transcript, dice_rolls, window, transcript_iterator, dice_roll,
                   window_beginning, window_middle, window_end, pre_roll_captions,
                   post_roll_captions, annotations, yielded, examined>>
    /\ UNCHANGED ts_vars

Next ==
    \/ NextRoll
    \/ Discard
    \/ Break
    \/ AppendPre
    \/ AppendPost
    \/ Exhausted
    \/ Yield
    \/ Return

Spec == Init /\ [][Next]_vars

(***************************************************************************)
(* Timestamp arithmetic on its own: a Timestamp is constructed from raw    *)
(* components, then + and - are applied to it with one right operand.      *)
(***************************************************************************)
\* components at and around the limits the asserts test
RawComponents == {-1, 0, 1, 58, 59, 60}

Timestamps ==
    { Timestamp(h, m, s) : h \in 0..MaxHour, m \in RawComponents \cap 0..59,
                           s \in RawComponents \cap 0..59 }

Operands ==
    { IntOperand(k) : k \in (-MaxInt)..MaxInt }
        \cup { TimestampOperand(t) : t \in Timestamps }
        \cup { StrOperand }

\* linearized seconds an operand stands for
OperandSeconds(rhs) ==
    IF rhs.kind = "int" THEN rhs.int
    ELSE IF rhs.kind = "Timestamp" THEN __int__(rhs.ts)
    ELSE 0

AlignerIdle ==
    /\ transcript = <<>>
    /\ dice_rolls = <<>>
    /\ window = 0
    /\ transcript_iterator = 1
    /\ dice_roll = 0
    /\ window_beginning = Unbound
    /\ window_middle = Unbound
    /\ window_end = Unbound
    /\ pre_roll_captions = <<>>
    /\ post_roll_captions = <<>>
    /\ pc = "idle"
    /\ annotations = <<>>
    /\ yielded = <<>>
    /\ examined = 0

InitTimestamp ==
    /\ t_args \in ((-1)..MaxHour) \X RawComponents \X RawComponents
    /\ t_rhs \in Operands
    /\ t_first = Unbound
    /\ t_self = Unbound
    /\ t_ops = <<>>
    /\ t_exact = 0
    /\ AlignerIdle

\* t = Timestamp(hour, minute, second)
Construct ==
    /\ t_self = Unbound
    /\ t_self' = Timestamp(t_args[1], t_args[2], t_args[3])
    /\ t_first' = t_self'
    /\ t_exact' = 3600 * t_args[1] + 60 * t_args[2] + t_args[3]
    /\ UNCHANGED <<t_args, t_rhs, t_ops>>
    /\ UNCHANGED align_vars

\* t = t + rhs
Add ==
    /\ IsTimestamp(t_self)
    /\ Len(t_ops) < MaxOps
    /\ t_self' = __add__(t_self, t_rhs)
    /\ t_ops' = Append(t_ops, "+")
    /\ t_exact' = t_exact + OperandSeconds(t_rhs)
    /\ UNCHANGED <<t_args, t_rhs, t_first>>
    /\ UNCHANGED align_vars

\* t = t - rhs
Sub ==
    /\ IsTimestamp(t_self)
    /\ Len(t_ops) < MaxOps
    /\ t_self' = __sub__(t_self, t_rhs)
    /\ t_ops' = Append(t_ops, "-")
    /\ t_exact' = t_exact - OperandSeconds(t_rhs)
    /\ UNCHANGED <<t_args, t_rhs, t_first>>
    /\ UNCHANGED align_vars

NextTimestamp ==
    \/ Construct
    \/ Add
    \/ Sub

SpecTimestamp == InitTimestamp /\ [][NextTimestamp]_vars

(***************************************************************************)
(* Properties of generate_annotations (checked under Spec)                 *)
(***************************************************************************)
Range(list) == { list[k] : k \in 1..Len(list) }

\* the captions the i-th yielded annotation was built from
Placed(i) == Range(yielded[i].pre) \cup Range(yielded[i].post)

Seconds(t) == 3600 * t.hour + 60 * t.minute + t.second

\* caption c starts within [timestamp - window, timestamp + window] of roll r
InWindow(c, r) ==
    /\ Seconds(dice_rolls[r].timestamp) - window <= Seconds(transcript[c].start)
    /\ Seconds(transcript[c].start) <= Seconds(dice_rolls[r].timestamp) + window

StrictlyIncreasing(list) ==
    \A a \in 1..Len(list) : \A b \in 1..Len(list) : a < b => list[a] < list[b]

RECURSIVE SpacedTexts(_, _)
\* the texts of the first n captions of the list, a single space between neighbours
SpacedTexts(captions, n) ==
    IF n = 0 THEN ""
    ELSE IF n = 1 THEN transcript[captions[1]].text
    ELSE SpacedTexts(captions, n - 1) \o " " \o transcript[captions[n]].text

\* C1: when the inner loop stops at a caption starting after window_end, the
\* caption is not consumed: the iterator still stands on it afterwards, so
\* it is the first caption the next roll examines.
C1_BreakLeavesCaption ==
    [][(pc = "for_caption" /\ HasNext /\ ~BelowWindow(caption) /\ AboveWindow(caption))
          => transcript_iterator' = transcript_iterator]_vars

\* C2: generate_annotations raises no error on well-formed input (captions
\* and rolls ascending, valid Timestamps, window >= 0), a roll fewer than
\* `window` seconds after 00:00:00 included.
C2_NoError == pc # "raised"

\* C3: exactly one annotation per input roll, in roll order: the i-th
\* annotation carries roll_type, value and critical of the i-th roll, and
\* when the run is over there are as many annotations as rolls.
C3_OneAnnotationPerRoll ==
    /\ \A i \in 1..Len(annotations) :
          /\ annotations[i].roll_type = dice_rolls[i].roll_type
          /\ annotations[i].value = dice_rolls[i].value
          /\ annotations[i].critical = dice_rolls[i].critical
    /\ pc \in {"done", "raised"} => Len(annotations) = Len(dice_rolls)

\* C4: no caption is placed in the annotations of two different rolls, and
\* none appears twice within one annotation (context and consequence together).
C4_NoDuplication ==
    \A i \in 1..Len(yielded) : \A j \in 1..Len(yielded) :
        LET ci == yielded[i].pre \o yielded[i].post
            cj == yielded[j].pre \o yielded[j].post
        IN  \A a \in 1..Len(ci) : \A b \in 1..Len(cj) :
                ci[a] = cj[b] => (i = j /\ a = b)

\* two rolls with overlapping windows have been processed, both took
\* captions, and one of the first roll's captions also starts within the
\* second roll's window
C4_Witness ==
    /\ Len(yielded) = 2
    /\ Placed(2) # {}
    /\ \E c \in Placed(1) : InWindow(c, 2)

\* C5: every caption placed in roll r's annotation (or collected for the roll
\* in progress) starts within [r.timestamp - window, r.timestamp + window];
\* so a caption starting below every roll's window is in no annotation, and
\* one starting above r's window is not in r's annotation.
C5_PlacedWithinWindow ==
    /\ \A i \in 1..Len(yielded) : \A c \in Placed(i) : InWindow(c, i)
    /\ pc = "for_caption" =>
          \A c \in Range(pre_roll_captions) \cup Range(post_roll_captions) :
              InWindow(c, dice_roll)
    /\ \A c \in 1..Len(transcript) :
          (\A r \in 1..Len(dice_rolls) :
               Seconds(transcript[c].start) < Seconds(dice_rolls[r].timestamp) - window)
              => \A i \in 1..Len(yielded) : c \notin Placed(i)

\* with a window of positive width, an annotation holds a caption starting
\* exactly at the window's beginning, and a caption starting before that was
\* left out of every annotation
C5_Witness ==
    /\ window > 0
    /\ \E i \in 1..Len(yielded) :
          /\ \E c \in Placed(i) :
                Seconds(transcript[c].start) = Seconds(dice_rolls[i].timestamp) - window
          /\ \E c \in 1..Len(transcript) :
                /\ Seconds(transcript[c].start) < Seconds(dice_rolls[i].timestamp) - window
                /\ \A j \in 1..Len(yielded) : c \notin Placed(j)

\* C6: a caption taken into roll r's window is in context exactly when its
\* end is before r.timestamp and in consequence otherwise (equality
\* included); context and consequence are the captions' texts in caption
\* order, a space between, and "" when no caption was classified that way.
C6_Classification ==
    \A i \in 1..Len(yielded) :
        LET y == yielded[i]
            at == Seconds(dice_rolls[i].timestamp)
        IN  /\ \A c \in Range(y.pre) : Seconds(transcript[c].end) < at
            /\ \A c \in Range(y.post) : Seconds(transcript[c].end) >= at
            /\ StrictlyIncreasing(y.pre)
            /\ StrictlyIncreasing(y.post)
            /\ annotations[i].context = SpacedTexts(y.pre, Len(y.pre))
            /\ annotations[i].consequence = SpacedTexts(y.post, Len(y.post))
            /\ y.pre = <<>> => annotations[i].context = ""
            /\ y.post = <<>> => annotations[i].consequence = ""

\* one annotation with a context caption and two consequence captions, one
\* of them ending exactly at the roll; another annotation with neither
C6_Witness ==
    /\ \E i \in 1..Len(yielded) :
          /\ yielded[i].pre # <<>>
          /\ Len(yielded[i].post) >= 2
          /\ \E c \in Range(yielded[i].post) :
                Seconds(transcript[c].end) = Seconds(dice_rolls[i].timestamp)
    /\ \E i \in 1..Len(yielded) :
          annotations[i].context = "" /\ annotations[i].consequence = ""

\* C9: a caption never needs revisiting: every caption that starts within
\* the window of at least one roll is in the context or consequence of some
\* annotation once the run is over.
C9_WindowCaptionsAnnotated ==
    pc = "done" =>
        \A c \in 1..Len(transcript) :
            (\E r \in 1..Len(dice_rolls) : InWindow(c, r))
                => \E i \in 1..Len(yielded) : c \in Placed(i)

\* C10: the caption iterator is shared by all rolls and only moves forward
\* (no step lowers it, a new roll does not reset it), so at most
\* captions + rolls captions are examined in one run.
C10_ForwardOnly ==
    /\ [][transcript_iterator' >= transcript_iterator]_vars
    /\ [](examined <= Len(transcript) + Len(dice_rolls))

\* the second roll is under way with the iterator where the first roll left
\* it, every caption seen once
C10_Witness ==
    /\ pc = "for_caption"
    /\ dice_roll = 2
    /\ transcript_iterator > 2
    /\ examined = transcript_iterator - 1
    /\ Len(yielded) = 1

(***************************************************************************)
(* Properties of Timestamp (checked under SpecTimestamp)                   *)
(***************************************************************************)
\* C7: (t + k) - k == t for any Timestamp t and any integer k.
C7_RoundTrip ==
    t_rhs.kind = "int" =>
        /\ t_ops = <<"+">> => IsTimestamp(t_self)
        /\ t_ops = <<"+", "-">> => (IsTimestamp(t_self) /\ __eq__(t_self, t_first))

\* C7 as amended: (t + k) - k == t for any Timestamp t and integer k whose
\* sum int(t) + k is not negative; when it is negative, t + k raises the
\* construction error.
C7_RoundTripNonNegative ==
    t_rhs.kind = "int" =>
        /\ t_ops = <<"+">> =>
              IF Seconds(t_first) + t_rhs.int >= 0
              THEN IsTimestamp(t_self)
              ELSE t_self = AssertionError
        /\ t_ops = <<"+", "-">> => (IsTimestamp(t_self) /\ __eq__(t_self, t_first))

\* k was added across the minute and the hour boundary and subtracted again
C7_Witness ==
    /\ t_ops = <<"+", "-">>
    /\ t_rhs.kind = "int"
    /\ t_rhs.int > 0
    /\ t_first.minute = 59
    /\ t_first.second + t_rhs.int >= 60
    /\ t_self = t_first

\* C8: every Timestamp that exists has 0 <= second < 60, 0 <= minute < 60,
\* hour >= 0; construction fails exactly on components outside that range,
\* and + or - with an integer or a Timestamp returns the Timestamp of the
\* exact sum or difference of the linearized seconds, or fails with the
\* construction error, which it does exactly when that result is negative.
C8_TimestampRange ==
    /\ IsTimestamp(t_self) =>
          /\ 0 <= t_self.second /\ t_self.second < 60
          /\ 0 <= t_self.minute /\ t_self.minute < 60
          /\ 0 <= t_self.hour
          /\ Seconds(t_self) = t_exact
    /\ (t_self # Unbound /\ t_ops = <<>>) =>
          (t_self = AssertionError <=>
              ~(/\ t_args[1] >= 0
                /\ t_args[2] \in 0..59
                /\ t_args[3] \in 0..59))
    /\ (t_ops # <<>> /\ t_rhs.kind \in {"int", "Timestamp"}) =>
          IF t_exact < 0 THEN t_self = AssertionError ELSE IsTimestamp(t_self)

\* a Timestamp was subtracted from an earlier one, with a borrow
C8_Witness ==
    /\ t_ops = <<"-">>
    /\ t_rhs.kind = "Timestamp"
    /\ t_first.second < t_rhs.ts.second
    /\ t_exact < 0
    /\ t_self = AssertionError

====
